---- MODULE Spec2Model ----
(***************************************************************************)
(* noteflow: the note store and its four access functions                  *)
(* (src/src/server/functions.ts), the paginated client cache of the index  *)
(* route with its optimistic create (src/src/routes/index.tsx) and the     *)
(* delete of the detail route (src/src/routes/notes/$id.tsx).              *)
(***************************************************************************)
EXTENDS Integers, Sequences, FiniteSets, TLC

VARIABLES
    store,        \* the rows of table "notes"
    clock,        \* the store's now(), at the resolution of a JS Date
    nextId,       \* the next id gen_random_uuid() hands out
    lastCall,     \* the last access-function call: input, answer, store before it
    created,      \* history: what each successful direct create submitted, and when
    walk,         \* a cursor walk over list: limit, cursor, pages so far
    cache,        \* query cache entry ["notes"]: pages and pageParams
    route,        \* what the router shows: index, its or a note's detail
    attempts,     \* one record per createNoteMutation.mutate call
    formAttempt,  \* the attempt the mounted CreateNoteModal form is awaiting (0: none)
    del,          \* handleDelete of the detail page
    fetch,        \* the fetch of query ["notes"] in flight: next page or refetch
    toast         \* the last notification sonner showed

vars == <<store, clock, nextId, lastCall, created, walk, cache, route, attempts,
          formAttempt, del, fetch, toast>>

----------------------------------------------------------------------------
(* Bounds of the model *)

MaxPad == 1          \* leading / trailing white space of an input string
MaxTime == 2         \* last value of the store's clock
MaxIds == 2          \* rows ever inserted
MaxWalkNotes == 4    \* rows of the store a cursor walk runs over
MaxLimit == 3        \* largest page size of a cursor walk
MaxAttempts == 2     \* create attempts of the client
MaxSeed == 2         \* rows in the store when the client starts
MaxPages == 1        \* full pages of rows in the store when the pager starts

(* Program constants *)

MAX_TITLE == 255          \* CreateNoteSchema title .max(255)
MIN_LIMIT == 1            \* GetNotesSchema limit .min(1)
MAX_LIMIT == 100          \* GetNotesSchema limit .max(100)
DEFAULT_LIMIT == 20       \* GetNotesSchema limit .default(20), PAGINATION.DEFAULT_LIMIT
LOADER_LIMIT == 10        \* Route.loader getNotes({ data: { limit: 10 } })
RETRY_ATTEMPTS == 3       \* RETRY.ATTEMPTS

NoCursor == -1            \* cursor / pageParam undefined
NoLimit == -1             \* limit left out of the request
BadId == 0                \* an id string that is no uuid

----------------------------------------------------------------------------
(* Strings.  A string is its leading white space, its body (from the first *)
(* to the last non-blank character) and its trailing white space, each by  *)
(* length.  A blank string has body 0 and all its white space in lead.     *)

Str(l, b, t) == [lead |-> l, body |-> b, trail |-> t]

StrLen(s) == s.lead + s.body + s.trail

\* String.prototype.trim
Trim(s) == Str(0, s.body, 0)

EmptyStr == Str(0, 0, 0)

BodyLens == {0, 1, MAX_TITLE, MAX_TITLE + 1}

TitleInputs ==
    {Str(l, b, 0) : l \in 0..MaxPad, b \in BodyLens}
        \cup {Str(0, 1, t) : t \in 1..MaxPad}

ContentInputs ==
    {Str(l, 0, 0) : l \in 0..MaxPad} \cup {Str(l, 1, 0) : l \in 0..MaxPad}

----------------------------------------------------------------------------
(* Notes and the store *)

Note(i, t, c, at) == [id |-> i, title |-> t, content |-> c, createdAt |-> at]

NoNote == Note(BadId, EmptyStr, EmptyStr, NoCursor)

Ids(notes) == {n.id : n \in notes}

Min(a, b) == IF a <= b THEN a ELSE b

MaxOf(S) == CHOOSE x \in S : \A y \in S : y <= x

\* z.string().uuid()
NoteIdSchema(id) == id # BadId

\* z.object({ cursor: z.string().datetime().optional(),
\*            limit: z.number().min(1).max(100).default(20) })
GetNotesSchema(data) ==
    data.limit = NoLimit \/ (data.limit >= MIN_LIMIT /\ data.limit <= MAX_LIMIT)

LimitOf(data) == IF data.limit = NoLimit THEN DEFAULT_LIMIT ELSE data.limit

\* z.object({ title: z.string().min(1).max(255), content: z.string().min(1) })
CreateNoteSchemaNoMax(data) ==
    /\ StrLen(data.title) >= 1
    /\ StrLen(data.content) >= 1
CreateNoteSchema(data) ==
    /\ StrLen(data.title) >= 1
    /\ StrLen(data.title) <= MAX_TITLE
    /\ StrLen(data.content) >= 1

\* .where(data.cursor ? lt(notes.createdAt, new Date(data.cursor)) : undefined)
WhereLte(rows, cursor) ==
    IF cursor = NoCursor THEN rows ELSE {n \in rows : n.createdAt <= cursor}
Where(rows, cursor) ==
    IF cursor = NoCursor THEN rows ELSE {n \in rows : n.createdAt < cursor}

\* .orderBy(desc(notes.createdAt)).limit(k): every answer the database may give;
\* rows of equal createdAt come in any order.
RECURSIVE OrderByDescLimit(_, _)
OrderByDescLimit(rows, k) ==
    IF rows = {} \/ k = 0 THEN {<<>>}
    ELSE UNION {
        {<<m>> \o r : r \in OrderByDescLimit(rows \ {m}, k - 1)} :
            m \in {x \in rows : \A y \in rows : y.createdAt <= x.createdAt}}

\* getNotes handler: the set of answers to list(cursor, limit)
GetNotes(rows, data) == OrderByDescLimit(Where(rows, data.cursor), LimitOf(data))

\* createNote handler: the inserted row
NewRowUntrimmed(data, id, now) == Note(id, data.title, data.content, now)
NewRow(data, id, now) == Note(id, Trim(data.title), Trim(data.content), now)

\* CreateNoteModal's field validators
FormTitleValidator(value) ==
    /\ StrLen(Trim(value)) # 0
    /\ StrLen(value) <= MAX_TITLE

FormContentValidator(value) == StrLen(Trim(value)) # 0

\* getNoteById handler: the rows matching the id
RowsByIdAny(rows, id) == rows
RowsById(rows, id) == {n \in rows : n.id = id}

\* deleteNote handler: db.delete(notes).where(eq(notes.id, data.id))
DeleteRowsNone(rows, id) == rows
DeleteRows(rows, id) == rows \ RowsById(rows, id)

\* deleteNote handler: whether .returning() gave a row
DeleteFoundAlways(rows, id) == TRUE
DeleteFound(rows, id) == RowsById(rows, id) # {}

----------------------------------------------------------------------------
(* The client's state, idle *)

NoCache == [defined |-> FALSE, pages |-> <<>>, pageParams |-> <<>>]

NoDelete == [id |-> BadId, phase |-> "idle", cacheAtStart |-> NoCache]

IdleAttempt ==
    [state |-> "idle", data |-> [title |-> EmptyStr, content |-> EmptyStr],
     previousData |-> NoCache, optimisticNote |-> NoNote, startCache |-> NoCache,
     cancelled |-> "none", calls |-> 0, net |-> "idle", response |-> NoNote]

NoCall ==
    [op |-> "none", id |-> BadId, data |-> [title |-> EmptyStr, content |-> EmptyStr],
     query |-> [cursor |-> NoCursor, limit |-> NoLimit],
     status |-> "none", note |-> NoNote, page |-> <<>>, before |-> {}]

NoFetch == [kind |-> "none", oldData |-> NoCache, started |-> 0, error |-> FALSE]

Toast(kind, of) == [kind |-> kind, of |-> of]

NoToast == Toast("none", "none")

NoWalk == [limit |-> 0, cursor |-> NoCursor, pages |-> <<>>, done |-> TRUE]

ClientIdle ==
    /\ cache = NoCache
    /\ route = "none"
    /\ attempts = [a \in 1..MaxAttempts |-> IdleAttempt]
    /\ formAttempt = 0
    /\ del = NoDelete
    /\ fetch = NoFetch
    /\ toast = NoToast

clientVars == <<cache, route, attempts, formAttempt, del, fetch, toast>>

----------------------------------------------------------------------------
(* The access functions, called directly: specification SpecApi *)

Tick ==
    /\ clock < MaxTime
    /\ clock' = clock + 1
    /\ UNCHANGED <<store, nextId, lastCall, created, walk, clientVars>>

ApiCreate ==
    \E t \in TitleInputs, c \in ContentInputs :
        LET data == [title |-> t, content |-> c] IN
        /\ nextId <= MaxIds
        /\ IF CreateNoteSchema(data)
           THEN LET row == NewRow(data, nextId, clock) IN
                /\ store' = store \cup {row}
                /\ nextId' = nextId + 1
                /\ lastCall' = [NoCall EXCEPT !.op = "create", !.data = data,
                                    !.status = "ok", !.note = row, !.before = store]
                /\ created' = [i \in DOMAIN created \cup {nextId} |->
                                 IF i = nextId THEN [data |-> data, at |-> clock]
                                 ELSE created[i]]
           ELSE /\ lastCall' = [NoCall EXCEPT !.op = "create", !.data = data,
                                    !.status = "ValidationError", !.before = store]
                /\ UNCHANGED <<store, nextId, created>>
        /\ UNCHANGED <<clock, walk, clientVars>>

ApiGetById ==
    \E id \in 0..MaxIds :
        /\ lastCall' =
             IF ~NoteIdSchema(id)
             THEN [NoCall EXCEPT !.op = "getById", !.id = id,
                       !.status = "ValidationError", !.before = store]
             ELSE IF RowsById(store, id) = {}
             THEN [NoCall EXCEPT !.op = "getById", !.id = id,
                       !.status = "NotFound", !.before = store]
             ELSE [NoCall EXCEPT !.op = "getById", !.id = id, !.status = "ok",
                       !.note = CHOOSE n \in RowsById(store, id) : TRUE,
                       !.before = store]
        /\ UNCHANGED <<store, clock, nextId, created, walk, clientVars>>

ApiDelete ==
    \E id \in 0..MaxIds :
        /\ IF ~NoteIdSchema(id)
           THEN /\ lastCall' = [NoCall EXCEPT !.op = "delete", !.id = id,
                                    !.status = "ValidationError", !.before = store]
                /\ UNCHANGED store
           ELSE /\ store' = DeleteRows(store, id)
                /\ lastCall' = [NoCall EXCEPT !.op = "delete", !.id = id,
                                    !.status = IF DeleteFound(store, id)
                                               THEN "ok" ELSE "NotFound",
                                    !.before = store]
        /\ UNCHANGED <<clock, nextId, created, walk, clientVars>>

ApiList ==
    \E cur \in {NoCursor} \cup 0..MaxTime,
       lim \in {NoLimit, 0, 1, 2, MAX_LIMIT, MAX_LIMIT + 1} :
        LET q == [cursor |-> cur, limit |-> lim] IN
        /\ IF GetNotesSchema(q)
           THEN \E page \in GetNotes(store, q) :
                    lastCall' = [NoCall EXCEPT !.op = "list", !.query = q,
                                     !.status = "ok", !.page = page, !.before = store]
           ELSE lastCall' = [NoCall EXCEPT !.op = "list", !.query = q,
                                 !.status = "ValidationError", !.before = store]
        /\ UNCHANGED <<store, clock, nextId, created, walk, clientVars>>

InitApi ==
    /\ store = {}
    /\ clock = 0
    /\ nextId = 1
    /\ lastCall = NoCall
    /\ created = <<>>
    /\ walk = NoWalk
    /\ ClientIdle

NextApi == Tick \/ ApiCreate \/ ApiGetById \/ ApiDelete

SpecApi == InitApi /\ [][NextApi]_vars

----------------------------------------------------------------------------
(* A cursor walk over list, as notesQueryOptions pages through the store:  *)
(* specification SpecWalk.  The store holds any rows earlier creates left. *)

PlainStr == Str(0, 1, 0)

\* the stores of n rows, row i created no later than row i + 1
SeedStores(n) ==
    {{Note(i, PlainStr, PlainStr, f[i]) : i \in 1..n} :
        f \in {g \in [1..n -> 0..MaxTime] :
                 \A i \in 1..n : \A j \in 1..n : i <= j => g[i] <= g[j]}}

\* getNextPageParam, for a page size of limit
GetNextPageParamAny(lastPage, limit) ==
    IF Len(lastPage) > 0 THEN lastPage[Len(lastPage)].createdAt ELSE NoCursor
GetNextPageParam(lastPage, limit) ==
    IF Len(lastPage) = limit THEN lastPage[Len(lastPage)].createdAt ELSE NoCursor

WalkStep ==
    /\ ~walk.done
    /\ LET q == [cursor |-> walk.cursor, limit |-> walk.limit] IN
       \E page \in GetNotes(store, q) :
           LET next == GetNextPageParam(page, walk.limit) IN
           /\ walk' = [walk EXCEPT !.pages = Append(@, page),
                                   !.cursor = next,
                                   !.done = (next = NoCursor)]
           /\ lastCall' = [NoCall EXCEPT !.op = "list", !.query = q,
                               !.status = "ok", !.page = page, !.before = store]
    /\ UNCHANGED <<store, clock, nextId, created, clientVars>>

InitWalk ==
    /\ \E n \in 0..MaxWalkNotes :
           /\ store \in SeedStores(n)
           /\ nextId = n + 1
    /\ clock = MaxTime
    /\ lastCall = NoCall
    /\ created = <<>>
    /\ \E l \in 1..MaxLimit :
           walk = [limit |-> l, cursor |-> NoCursor, pages |-> <<>>, done |-> FALSE]
    /\ ClientIdle

NextWalk == WalkStep

SpecWalk == InitWalk /\ [][NextWalk]_vars

----------------------------------------------------------------------------
(* list called with any cursor and limit over any store: specification     *)
(* SpecList                                                                *)

InitList ==
    /\ \E n \in 0..MaxWalkNotes :
           /\ store \in SeedStores(n)
           /\ nextId = n + 1
    /\ clock = MaxTime
    /\ lastCall = NoCall
    /\ created = <<>>
    /\ walk = NoWalk
    /\ ClientIdle

NextList == ApiList

SpecList == InitList /\ [][NextList]_vars

----------------------------------------------------------------------------
(* Properties of the access functions *)

RECURSIVE Flat(_)
Flat(pages) == IF pages = <<>> THEN <<>> ELSE Head(pages) \o Flat(Tail(pages))

Range(seq) == {seq[i] : i \in 1..Len(seq)}

NoRepeat(seq) == \A i \in 1..Len(seq) : \A j \in 1..Len(seq) : i # j => seq[i] # seq[j]

Descending(seq) ==
    \A i \in 1..Len(seq) : \A j \in 1..Len(seq) :
        i < j => seq[i].createdAt >= seq[j].createdAt

\* C3: a finished cursor walk (first call without cursor, then cursor = createdAt
\* of the last note of the previous page, until a page shorter than the limit)
\* has returned exactly the rows of the store, each once, newest first, whatever
\* the createdAt values of the rows.
C3_WalkReturnsEveryNote ==
    walk.done /\ walk.limit > 0 =>
        LET all == Flat(walk.pages) IN
        /\ Range(all) = store
        /\ NoRepeat(all)
        /\ Descending(all)

\* the notes list(cursor, ...) may return: all, or those strictly older than cursor
Eligible(rows, cursor) ==
    {n \in rows : cursor = NoCursor \/ n.createdAt < cursor}

\* C4: an answered list(cursor, limit) holds min(limit, number of eligible notes)
\* notes, never more than limit, all of them stored notes strictly older than the
\* cursor, newest first, none twice, and no eligible note left out is newer than
\* a returned one; over three notes at t1 < t2 < t3 with limit 2 that is <<t3, t2>>
\* without cursor, <<t1>> with cursor t2 and <<>> with cursor t1.
C4_ListPage ==
    lastCall.op = "list" /\ lastCall.status = "ok" =>
        LET q == lastCall.query
            page == lastCall.page
            lim == IF q.limit = NoLimit THEN DEFAULT_LIMIT ELSE q.limit
            elig == Eligible(lastCall.before, q.cursor)
        IN
        /\ Len(page) <= lim
        /\ Len(page) = Min(lim, Cardinality(elig))
        /\ Range(page) \subseteq elig
        /\ NoRepeat(page)
        /\ Descending(page)
        /\ \A n \in elig \ Range(page) : \A m \in Range(page) : n.createdAt <= m.createdAt
        /\ \A n1 \in store : \A n2 \in store : \A n3 \in store :
              (/\ store = {n1, n2, n3}
               /\ n1.createdAt < n2.createdAt
               /\ n2.createdAt < n3.createdAt
               /\ q.limit = 2) =>
                  /\ q.cursor = NoCursor => page = <<n3, n2>>
                  /\ q.cursor = n2.createdAt => page = <<n1>>
                  /\ q.cursor = n1.createdAt => page = <<>>

\* list over t1 < t2 < t3 with limit 2 and cursor t2 has answered <<t1>>
C4_Witness ==
    /\ lastCall.op = "list"
    /\ lastCall.status = "ok"
    /\ lastCall.query.limit = 2
    /\ Cardinality(store) = 3
    /\ Len(lastCall.page) = 1
    /\ \E n2 \in store, n3 \in store :
          /\ lastCall.query.cursor = n2.createdAt
          /\ lastCall.page[1].createdAt < n2.createdAt
          /\ n2.createdAt < n3.createdAt

\* C5: getById of an id a create returned, not deleted since, answers the note
\* with that id whose title and content are the submitted ones trimmed and whose
\* createdAt is the store's clock at the insert.
C5_CreateRoundTrip ==
    (/\ lastCall.op = "getById"
     /\ lastCall.id \in DOMAIN created
     /\ lastCall.id \in Ids(lastCall.before)) =>
        /\ lastCall.status = "ok"
        /\ lastCall.note.id = lastCall.id
        /\ lastCall.note.title = Trim(created[lastCall.id].data.title)
        /\ lastCall.note.content = Trim(created[lastCall.id].data.content)
        /\ lastCall.note.createdAt = created[lastCall.id].at

\* getById has answered a note that was submitted with white space around its title
C5_Witness ==
    /\ lastCall.op = "getById"
    /\ lastCall.status = "ok"
    /\ lastCall.id \in DOMAIN created
    /\ created[lastCall.id].data.title.lead > 0
    /\ created[lastCall.id].data.title.body > 0
    /\ lastCall.note.title.lead = 0

\* C6: delete of a stored id answers ok and removes that note and no other;
\* delete of a well-formed id that is not stored (never created, or deleted
\* before) answers NotFound and leaves the store as it was.
C6_DeleteBoundary ==
    lastCall.op = "delete" /\ NoteIdSchema(lastCall.id) =>
        IF lastCall.id \in Ids(lastCall.before)
        THEN /\ lastCall.status = "ok"
             /\ store = {n \in lastCall.before : n.id # lastCall.id}
             /\ Cardinality(store) = Cardinality(lastCall.before) - 1
        ELSE /\ lastCall.status = "NotFound"
             /\ store = lastCall.before

\* the second delete of an id that was created and already deleted, another note
\* being stored
C6_Witness ==
    /\ lastCall.op = "delete"
    /\ lastCall.status = "NotFound"
    /\ lastCall.id \in DOMAIN created
    /\ store # {}

\* C7: a create with an empty title, a title of more than 255 characters or an
\* empty content answers ValidationError and leaves the store as it was.
C7_InvalidCreateRejected ==
    (/\ lastCall.op = "create"
     /\ \/ StrLen(lastCall.data.title) = 0
        \/ StrLen(lastCall.data.title) > MAX_TITLE
        \/ StrLen(lastCall.data.content) = 0) =>
        /\ lastCall.status = "ValidationError"
        /\ store = lastCall.before

\* a create with a title of 256 characters was rejected while a note was stored
C7_Witness ==
    /\ lastCall.op = "create"
    /\ StrLen(lastCall.data.title) = MAX_TITLE + 1
    /\ StrLen(lastCall.data.content) > 0
    /\ lastCall.status = "ValidationError"
    /\ store # {}

\* C8: every stored note has a title of 1 to 255 characters and a content of at
\* least 1 character, and the last create was accepted exactly when its trimmed
\* title has 1 to 255 characters and its trimmed content at least 1.
C8_StoredNoteInvariant ==
    /\ \A n \in store :
          /\ StrLen(n.title) >= 1
          /\ StrLen(n.title) <= MAX_TITLE
          /\ StrLen(n.content) >= 1
    /\ lastCall.op = "create" =>
          (lastCall.status = "ok" <=>
              /\ StrLen(Trim(lastCall.data.title)) >= 1
              /\ StrLen(Trim(lastCall.data.title)) <= MAX_TITLE
              /\ StrLen(Trim(lastCall.data.content)) >= 1)

\* C11: getById of a well-formed id answers the stored note with that id when
\* there is one and NotFound when there is none, and in both cases the store is
\* the one it was called on.
C11_GetById ==
    lastCall.op = "getById" /\ NoteIdSchema(lastCall.id) =>
        /\ store = lastCall.before
        /\ IF lastCall.id \in Ids(lastCall.before)
           THEN /\ lastCall.status = "ok"
                /\ lastCall.note \in lastCall.before
                /\ lastCall.note.id = lastCall.id
           ELSE /\ lastCall.status = "NotFound"
                /\ lastCall.note = NoNote

\* getById has answered the older of two stored notes
C11_Witness ==
    /\ lastCall.op = "getById"
    /\ lastCall.status = "ok"
    /\ Cardinality(store) = 2
    /\ \E n \in store : n.id > lastCall.note.id

\* C12: every create input that a field validator of the form rejects is also
\* rejected by the create access function, which then stores nothing.
C12_ServerCoversForm ==
    (/\ lastCall.op = "create"
     /\ ~(/\ FormTitleValidator(lastCall.data.title)
          /\ FormContentValidator(lastCall.data.content))) =>
        /\ lastCall.status = "ValidationError"
        /\ store = lastCall.before

----------------------------------------------------------------------------
(* The client: the index route's cache and optimistic create, the detail   *)
(* route's delete: specification Spec                                      *)

\* what the user submits through the form
ClientTitles ==
    {t \in TitleInputs : FormTitleValidator(t) /\ t.body = 1 /\ t.lead = MaxPad}

ClientContents == {PlainStr}

\* new Date() of the browser: behind or ahead of the store's clock
ClientNow == {0, MaxSeed + MaxIds + 1}

\* crypto.randomUUID() of attempt a: never an id of the store
PlaceholderId(a) == 0 - a

CacheOf(pages, params) == [defined |-> TRUE, pages |-> pages, pageParams |-> params]

CacheNotes(c) == Flat(c.pages)

CacheIds(c) == {n.id : n \in Range(CacheNotes(c))}

\* onMutate's setQueryData updater
OnMutateDropOverflow(old, optimisticNote) ==
    IF ~old.defined
    THEN CacheOf(<< <<optimisticNote>> >>, <<NoCursor>>)
    ELSE LET firstPage == IF Len(old.pages) >= 1 THEN old.pages[1] ELSE <<>>
             updatedFirstPage == <<optimisticNote>> \o firstPage
             n == Len(updatedFirstPage)
         IN  [old EXCEPT !.pages =
                 <<SubSeq(updatedFirstPage, 1, Min(n, DEFAULT_LIMIT))>>
                     \o SubSeq(old.pages, 2, Len(old.pages))]
OnMutateUpdate(old, optimisticNote) ==
    IF ~old.defined
    THEN CacheOf(<< <<optimisticNote>> >>, <<NoCursor>>)
    ELSE LET firstPage == IF Len(old.pages) >= 1 THEN old.pages[1] ELSE <<>>
             updatedFirstPage == <<optimisticNote>> \o firstPage
             n == Len(updatedFirstPage)
         IN  IF n > DEFAULT_LIMIT
             THEN LET lastItem == updatedFirstPage[n]
                      secondPage == IF Len(old.pages) >= 2 THEN old.pages[2] ELSE <<>>
                  IN  [old EXCEPT !.pages =
                          <<SubSeq(updatedFirstPage, 1, n - 1), <<lastItem>> \o secondPage>>
                              \o SubSeq(old.pages, 3, Len(old.pages))]
             ELSE [old EXCEPT !.pages =
                      <<updatedFirstPage>> \o SubSeq(old.pages, 2, Len(old.pages))]

\* onMutate: what getQueryData gives as previousData, with the cache before and
\* after the updater
Snapshot(before, after) == before

\* onSuccess's setQueryData updater
OnSuccessTakeAll(old, data, optimisticNote) ==
    IF ~old.defined THEN old
    ELSE [old EXCEPT !.pages =
            [p \in DOMAIN old.pages |->
                [i \in DOMAIN old.pages[p] |->
                    IF old.pages[p][i].id = optimisticNote.id
                    THEN data
                    ELSE old.pages[p][i]]]]
OnSuccessUpdate(old, data, optimisticNote) ==
    IF ~old.defined THEN old
    ELSE [old EXCEPT !.pages =
            [p \in DOMAIN old.pages |->
                [i \in DOMAIN old.pages[p] |->
                    IF old.pages[p][i].id = optimisticNote.id
                    THEN [data EXCEPT !.createdAt = old.pages[p][i].createdAt]
                    ELSE old.pages[p][i]]]]

\* onError's rollback
OnErrorKeep(current, previousData) == current
OnErrorUpdate(current, previousData) ==
    IF previousData.defined THEN previousData ELSE current

\* the form of the mounted modal is free again once its attempt has settled
FormAfter(a) == IF formAttempt = a THEN 0 ELSE formAttempt

\* queryClient.cancelQueries({ queryKey }): the fetch in flight is dropped and
\* its answer ignored
CancelNothing(f) == f
CancelQueries(f) == NoFetch

\* createNoteMutation.mutate: onMutate
Mutate(a) ==
    /\ route = "index"
    /\ formAttempt = 0
    /\ attempts[a].state = "idle"
    /\ IF a = 1 THEN TRUE ELSE attempts[a - 1].state # "idle"
    /\ \E t \in ClientTitles, c \in ClientContents, now \in ClientNow :
          LET optimisticNote == Note(PlaceholderId(a), t, c, now)
              updated == OnMutateUpdate(cache, optimisticNote)
          IN
          /\ cache' = updated
          /\ attempts' = [attempts EXCEPT ![a] =
                [IdleAttempt EXCEPT !.state = "pending",
                                    !.data = [title |-> t, content |-> c],
                                    !.previousData = Snapshot(cache, updated),
                                    !.optimisticNote = optimisticNote,
                                    !.startCache = cache,
                                    !.cancelled = fetch.kind]]
    /\ formAttempt' = a
    /\ fetch' = CancelQueries(fetch)
    /\ UNCHANGED <<store, clock, nextId, lastCall, created, walk, route, del, toast>>

\* mutationFn runs once onMutate has resolved, and again for each retry
CanCallForever(a) ==
    /\ attempts[a].state = "pending"
    /\ attempts[a].net # "ok"
CanCallUnstarted(a) ==
    /\ attempts[a].state \in {"idle", "pending"}
    /\ attempts[a].net # "ok"
    /\ attempts[a].calls < 1 + RETRY_ATTEMPTS
CanCall(a) ==
    /\ attempts[a].state = "pending"
    /\ attempts[a].net # "ok"
    /\ attempts[a].calls < 1 + RETRY_ATTEMPTS

\* mutationFn: the request reaches createNote; its answer arrives or is lost
ServerCreate(a) ==
    /\ CanCall(a)
    /\ nextId <= MaxSeed + Len(attempts)
    /\ LET data == attempts[a].data IN
       IF CreateNoteSchema(data)
       THEN LET row == NewRow(data, nextId, clock) IN
            /\ store' = store \cup {row}
            /\ nextId' = nextId + 1
            /\ clock' = clock + 1
            /\ \E delivered \in BOOLEAN :
                  attempts' = [attempts EXCEPT
                      ![a].calls = @ + 1,
                      ![a].net = IF delivered THEN "ok" ELSE "failed",
                      ![a].response = IF delivered THEN row ELSE NoNote]
       ELSE /\ attempts' = [attempts EXCEPT ![a].calls = @ + 1, ![a].net = "failed"]
            /\ UNCHANGED <<store, nextId, clock,
                   fetch, toast>>
    /\ UNCHANGED <<lastCall, created, walk, cache, route, formAttempt, del,
                   fetch, toast>>

\* mutationFn: the request never reaches the server
TransportFail(a) ==
    /\ CanCall(a)
    /\ attempts' = [attempts EXCEPT ![a].calls = @ + 1, ![a].net = "failed"]
    /\ UNCHANGED <<store, clock, nextId, lastCall, created, walk, cache, route,
                   formAttempt, del,
                   fetch, toast>>

\* createNoteMutation.onSuccess
OnSuccess(a) ==
    /\ attempts[a].state = "pending"
    /\ attempts[a].net = "ok"
    /\ cache' = OnSuccessUpdate(cache, attempts[a].response, attempts[a].optimisticNote)
    /\ attempts' = [attempts EXCEPT ![a].state = "committed"]
    /\ formAttempt' = FormAfter(a)
    /\ toast' = Toast("success", "create")
    /\ UNCHANGED <<store, clock, nextId, lastCall, created, walk, route, del, fetch>>

\* createNoteMutation.onError, once the retries are used up
OnError(a) ==
    /\ attempts[a].state = "pending"
    /\ attempts[a].net = "failed"
    /\ attempts[a].calls = 1 + RETRY_ATTEMPTS
    /\ cache' = OnErrorUpdate(cache, attempts[a].previousData)
    /\ attempts' = [attempts EXCEPT ![a].state = "rolled-back"]
    /\ formAttempt' = FormAfter(a)
    /\ toast' = Toast("error", "create")
    /\ UNCHANGED <<store, clock, nextId, lastCall, created, walk, route, del, fetch>>

\* Route.loader of "/": getNotes({ data: { limit: 10 } }), setQueryData; App
\* mounts with a fresh modal form
Loader ==
    /\ route = "index-loading"
    /\ \E notes \in GetNotes(store, [cursor |-> NoCursor, limit |-> LOADER_LIMIT]) :
          cache' = CacheOf(<<notes>>, <<NoCursor>>)
    /\ route' = "index"
    /\ formAttempt' = 0
    /\ UNCHANGED <<store, clock, nextId, lastCall, created, walk, attempts, del,
                   fetch, toast>>

\* the user leaves "/" (a note's detail page, say) and comes back: the route
\* loads again
Navigate ==
    /\ route = "index"
    /\ route' = "index-loading"
    /\ UNCHANGED <<store, clock, nextId, lastCall, created, walk, cache, attempts,
                   formAttempt, del,
                   fetch, toast>>

\* NoteTable's link to a note the table shows; the detail loader finds the note
OpenDetail(id) ==
    /\ route = "index"
    /\ del.phase \in {"idle", "deleted"}
    /\ id \in CacheIds(cache)
    /\ RowsById(store, id) # {}
    /\ route' = "detail"
    /\ del' = [NoDelete EXCEPT !.id = id]
    /\ UNCHANGED <<store, clock, nextId, lastCall, created, walk, cache, attempts,
                   formAttempt,
                   fetch, toast>>

\* the detail page's "Volver"
Back ==
    /\ route = "detail"
    /\ route' = "index-loading"
    /\ del' = IF del.phase = "idle" THEN NoDelete ELSE del
    /\ UNCHANGED <<store, clock, nextId, lastCall, created, walk, cache, attempts,
                   formAttempt,
                   fetch, toast>>

\* handleDelete up to the await of deleteNote
HandleDelete ==
    /\ route = "detail"
    /\ del.phase = "idle"
    /\ del.id # BadId
    /\ del' = [del EXCEPT !.phase = "deleting", !.cacheAtStart = cache]
    /\ UNCHANGED <<store, clock, nextId, lastCall, created, walk, cache, route,
                   attempts, formAttempt,
                   fetch, toast>>

\* handleDelete after the await: deleteNote answered success; navigate to "/"
DeleteAnswerOk ==
    /\ del.phase = "deleting"
    /\ DeleteFound(store, del.id)
    /\ store' = DeleteRows(store, del.id)
    /\ route' = "index-loading"
    /\ del' = [del EXCEPT !.phase = "deleted", !.cacheAtStart = NoCache]
    /\ toast' = Toast("success", "delete")
    /\ UNCHANGED <<clock, nextId, lastCall, created, walk, cache, attempts,
                   formAttempt, fetch>>

\* handleDelete after the await: deleteNote threw (the request was lost, the
\* handler found no row, or its answer was lost); the toast, and no more
DeleteAnswerError ==
    /\ del.phase = "deleting"
    /\ \E ran \in BOOLEAN :
          store' = IF ran THEN DeleteRows(store, del.id) ELSE store
    /\ del' = [del EXCEPT !.phase = "idle", !.cacheAtStart = NoCache]
    /\ toast' = Toast("error", "delete")
    /\ UNCHANGED <<clock, nextId, lastCall, created, walk, cache, route, attempts,
                   formAttempt, fetch>>

\* the rows earlier sessions left in the store
ClientSeed(n) == {Note(i, PlainStr, PlainStr, i) : i \in 1..n}

Init ==
    /\ \E n \in 0..MaxSeed :
          /\ store = ClientSeed(n)
          /\ nextId = n + 1
          /\ clock = n + 1
    /\ lastCall = NoCall
    /\ created = <<>>
    /\ walk = NoWalk
    /\ cache = NoCache
    /\ route = "index-loading"
    /\ attempts = [a \in 1..MaxAttempts |-> IdleAttempt]
    /\ formAttempt = 0
    /\ del = NoDelete
    /\ fetch = NoFetch
    /\ toast = NoToast

Next ==
    \/ Loader
    \/ Navigate
    \/ \E a \in 1..MaxAttempts : Mutate(a)
    \/ \E a \in 1..MaxAttempts : ServerCreate(a)
    \/ \E a \in 1..MaxAttempts : TransportFail(a)
    \/ \E a \in 1..MaxAttempts : OnSuccess(a)
    \/ \E a \in 1..MaxAttempts : OnError(a)

Spec == Init /\ [][Next]_vars

\* every request is answered or lost in the end, and a settled mutation's
\* callback runs
Fairness ==
    \A a \in 1..MaxAttempts :
        /\ WF_vars(ServerCreate(a) \/ TransportFail(a))
        /\ WF_vars(OnSuccess(a))
        /\ WF_vars(OnError(a))

SpecLive == Init /\ [][Next]_vars /\ Fairness

----------------------------------------------------------------------------
(* The detail route and its delete: specification SpecDelete *)

NextDelete ==
    \/ Loader
    \/ Mutate(1)
    \/ ServerCreate(1)
    \/ TransportFail(1)
    \/ OnSuccess(1)
    \/ OnError(1)
    \/ \E id \in 1..(MaxSeed + MaxIds) : OpenDetail(id)
    \/ Back
    \/ HandleDelete
    \/ DeleteAnswerOk
    \/ DeleteAnswerError

SpecDelete == Init /\ [][NextDelete]_vars

----------------------------------------------------------------------------
(* The infinite query of the index route: load more, refetch, and creates   *)
(* over a store of more than one page: specification SpecQuery             *)

LastPage(c) == c.pages[Len(c.pages)]

\* hasNextPage: getNextPageParam of the cached last page
HasNextPage(c) ==
    /\ c.defined
    /\ Len(c.pages) > 0
    /\ GetNextPageParam(LastPage(c), DEFAULT_LIMIT) # NoCursor

\* create attempts started so far
Started == Cardinality({a \in DOMAIN attempts : attempts[a].state # "idle"})

\* "Cargar más notas": fetchNextPage; a refetch in flight gives way
FetchNextPage ==
    /\ route = "index"
    /\ HasNextPage(cache)
    /\ fetch.kind # "next"
    /\ fetch' = [NoFetch EXCEPT !.kind = "next", !.oldData = cache,
                                !.started = Started]
    /\ UNCHANGED <<store, clock, nextId, lastCall, created, walk, cache, route,
                   attempts, formAttempt, del, toast>>

\* queryFn answered the next page: it is appended to the pages the fetch began with
FetchNextAnswer ==
    /\ fetch.kind = "next"
    /\ LET old == fetch.oldData
           param == GetNextPageParam(LastPage(old), DEFAULT_LIMIT)
       IN  \E page \in GetNotes(store, [cursor |-> param, limit |-> DEFAULT_LIMIT]) :
               cache' = CacheOf(Append(old.pages, page), Append(old.pageParams, param))
    /\ fetch' = NoFetch
    /\ UNCHANGED <<store, clock, nextId, lastCall, created, walk, route, attempts,
                   formAttempt, del, toast>>

\* a refetch of the infinite query: page after page from the first, as many
\* pages as the cache held, each cursor taken from the page fetched before
RECURSIVE RefetchPages(_, _, _)
RefetchPages(rows, result, remaining) ==
    LET param == IF result.pages = <<>> THEN NoCursor
                 ELSE GetNextPageParam(LastPage(result), DEFAULT_LIMIT)
    IN  IF remaining = 0 \/ (result.pages # <<>> /\ param = NoCursor)
        THEN {result}
        ELSE UNION {
            RefetchPages(rows,
                         CacheOf(Append(result.pages, page),
                                 Append(result.pageParams, param)),
                         remaining - 1) :
                page \in GetNotes(rows, [cursor |-> param, limit |-> DEFAULT_LIMIT])}

\* the stale query refetches (the network is back)
Refetch ==
    /\ route = "index"
    /\ cache.defined
    /\ fetch.kind = "none"
    /\ fetch' = [NoFetch EXCEPT !.kind = "refetch", !.oldData = cache,
                                !.started = Started]
    /\ UNCHANGED <<store, clock, nextId, lastCall, created, walk, cache, route,
                   attempts, formAttempt, del, toast>>

RefetchAnswer ==
    /\ fetch.kind = "refetch"
    /\ \E result \in RefetchPages(store, CacheOf(<<>>, <<>>), Len(fetch.oldData.pages)) :
          cache' = result
    /\ fetch' = NoFetch
    /\ UNCHANGED <<store, clock, nextId, lastCall, created, walk, route, attempts,
                   formAttempt, del, toast>>

\* the fetch failed for good (its retries are used up): the query keeps its data
\* and its error; App reads neither error nor isError and shows nothing
FetchError ==
    /\ fetch.kind # "none"
    /\ fetch' = [NoFetch EXCEPT !.error = TRUE]
    /\ UNCHANGED <<store, clock, nextId, lastCall, created, walk, cache, route,
                   attempts, formAttempt, del, toast>>

\* ids of the rows earlier sessions left: apart from the ids of this session
SeedIdBase == MaxSeed + MaxAttempts

QuerySeed(n) == {Note(SeedIdBase + i, PlainStr, PlainStr, i) : i \in 1..n}

InitQuery ==
    /\ \E k \in 1..MaxPages :
          /\ store = QuerySeed(k * DEFAULT_LIMIT + 1)
          /\ clock = k * DEFAULT_LIMIT + 2
    /\ nextId = 1
    /\ lastCall = NoCall
    /\ created = <<>>
    /\ walk = NoWalk
    /\ cache = NoCache
    /\ route = "index-loading"
    /\ attempts = [a \in 1..MaxAttempts |-> IdleAttempt]
    /\ formAttempt = 0
    /\ del = NoDelete
    /\ fetch = NoFetch
    /\ toast = NoToast

NextQuery ==
    \/ Loader
    \/ Navigate
    \/ Refetch
    \/ RefetchAnswer
    \/ FetchNextPage
    \/ FetchNextAnswer
    \/ FetchError
    \/ Mutate(1)
    \/ ServerCreate(1)
    \/ TransportFail(1)
    \/ OnSuccess(1)
    \/ OnError(1)

SpecQuery == InitQuery /\ [][NextQuery]_vars

----------------------------------------------------------------------------
(* A create and load more over a cache of one or more pages of any fill, as *)
(* a refetch left it: specification SpecSpill                              *)

PageFills == {0, 1, DEFAULT_LIMIT - 1, DEFAULT_LIMIT}

InitSpill ==
    /\ \E k \in 0..MaxPages, r \in PageFills :
          /\ store = QuerySeed(k * DEFAULT_LIMIT + r)
          /\ clock = k * DEFAULT_LIMIT + r + 1
    /\ \E p \in 1..(MaxPages + 1) :
          cache \in RefetchPages(store, CacheOf(<<>>, <<>>), p)
    /\ nextId = 1
    /\ lastCall = NoCall
    /\ created = <<>>
    /\ walk = NoWalk
    /\ route = "index"
    /\ attempts = [a \in 1..MaxAttempts |-> IdleAttempt]
    /\ formAttempt = 0
    /\ del = NoDelete
    /\ fetch = NoFetch
    /\ toast = NoToast

NextSpill ==
    \/ Mutate(1)
    \/ ServerCreate(1)
    \/ TransportFail(1)
    \/ OnSuccess(1)
    \/ OnError(1)
    \/ FetchNextPage
    \/ FetchNextAnswer
    \/ FetchError

SpecSpill == InitSpill /\ [][NextSpill]_vars

----------------------------------------------------------------------------
(* onMutate's updater over every shape of cache value its code provides    *)
(* for: none, no page, one page or more of any fill: specification         *)
(* SpecApply                                                               *)

InitApply ==
    /\ \E k \in 0..MaxPages, r \in PageFills :
          /\ store = QuerySeed(k * DEFAULT_LIMIT + r)
          /\ clock = k * DEFAULT_LIMIT + r + 1
    /\ cache \in {NoCache, CacheOf(<<>>, <<>>)} \cup
                 UNION {RefetchPages(store, CacheOf(<<>>, <<>>), p) :
                            p \in 1..(MaxPages + 1)}
    /\ nextId = 1
    /\ lastCall = NoCall
    /\ created = <<>>
    /\ walk = NoWalk
    /\ route = "index"
    /\ attempts = [a \in 1..MaxAttempts |-> IdleAttempt]
    /\ formAttempt = 0
    /\ del = NoDelete
    /\ fetch = NoFetch
    /\ toast = NoToast

NextApply ==
    \/ Mutate(1)
    \/ ServerCreate(1)
    \/ TransportFail(1)
    \/ OnSuccess(1)
    \/ OnError(1)

SpecApply == InitApply /\ [][NextApply]_vars

----------------------------------------------------------------------------
(* A session that creates notes until the first page is full and then loads *)
(* more, the browser's clock ahead of the store's and every answer          *)
(* delivered: specification SpecFill                                       *)

InitFill ==
    /\ \E n \in 0..MaxSeed :
          /\ store = ClientSeed(n)
          /\ nextId = n + 1
          /\ clock = n + 1
    /\ lastCall = NoCall
    /\ created = <<>>
    /\ walk = NoWalk
    /\ cache = NoCache
    /\ route = "index-loading"
    /\ attempts = [a \in 1..DEFAULT_LIMIT |-> IdleAttempt]
    /\ formAttempt = 0
    /\ del = NoDelete
    /\ fetch = NoFetch
    /\ toast = NoToast

NextFill ==
    \/ Loader
    \/ \E a \in 1..DEFAULT_LIMIT :
          Mutate(a) /\ attempts'[a].optimisticNote.createdAt > 0
    \/ \E a \in 1..DEFAULT_LIMIT : ServerCreate(a) /\ attempts'[a].net = "ok"
    \/ \E a \in 1..DEFAULT_LIMIT : OnSuccess(a)
    \/ FetchNextPage
    \/ FetchNextAnswer

SpecFill == InitFill /\ [][NextFill]_vars

----------------------------------------------------------------------------
(* Properties of the optimistic create and of the delete *)

Starts(a) == attempts[a].state = "idle" /\ attempts'[a].state = "pending"

Commits(a) == attempts[a].state = "pending" /\ attempts'[a].state = "committed"

RollsBack(a) == attempts[a].state = "pending" /\ attempts'[a].state = "rolled-back"

\* C1: when a create attempt that started with cache value S fails for good, the
\* cache right after onError equals S: every page and cursor as in S, and the
\* placeholder in no page.
C1_RollbackRestoresSnapshot ==
    [][\A a \in 1..MaxAttempts :
          RollsBack(a) /\ attempts[a].startCache.defined =>
              /\ cache' = attempts[a].startCache
              /\ PlaceholderId(a) \notin CacheIds(cache')]_vars

\* an attempt has been rolled back to a cache with notes in it, after a row of
\* its own reached the store
C1_Witness ==
    \E a \in 1..MaxAttempts :
        /\ attempts[a].state = "rolled-back"
        /\ attempts[a].startCache.defined
        /\ cache = attempts[a].startCache
        /\ CacheNotes(cache) # <<>>
        /\ \E r \in store : r.id \notin CacheIds(cache)

\* C2: onSuccess changes exactly one cache entry, the one with the placeholder
\* id, into an entry with the server's id, and leaves the number of cached notes
\* as it was.
C2_CommitChangesOneEntry ==
    [][\A a \in 1..MaxAttempts :
          Commits(a) =>
              LET before == CacheNotes(cache)
                  after == CacheNotes(cache')
                  changed == {i \in 1..Len(before) : before[i] # after[i]}
              IN
              /\ Len(after) = Len(before)
              /\ Cardinality(changed) = 1
              /\ \A i \in changed :
                    /\ before[i].id = PlaceholderId(a)
                    /\ after[i].id = attempts[a].response.id]_vars

DeleteStarts == del.phase = "idle" /\ del'.phase = "deleting"

DeleteSucceeds == del.phase = "deleting" /\ del'.phase = "deleted"

DeleteFails == del.phase = "deleting" /\ del'.phase = "idle"

C10_AttemptStateMachine ==
    [][\A a \in 1..MaxAttempts :
          /\ attempts'[a].state # attempts[a].state =>
                Starts(a) \/ Commits(a) \/ RollsBack(a)
          /\ Starts(a) => PlaceholderId(a) \in CacheIds(cache')
          /\ Commits(a) =>
                /\ attempts[a].response.id \in CacheIds(cache')
                /\ PlaceholderId(a) \notin CacheIds(cache')
          /\ RollsBack(a) =>
                /\ cache' = attempts[a].startCache
                /\ attempts[a].response.id \notin CacheIds(cache')
                /\ PlaceholderId(a) \notin CacheIds(cache')]_vars

----------------------------------------------------------------------------
(* Properties of the cache under loads, fetches and creates *)

NoPending == \A a \in DOMAIN attempts : attempts[a].state # "pending"

FetchFails == fetch.kind # "none" /\ fetch'.error

\* the fetch in flight was answered and its pages written to the cache
FetchWritten(kind) ==
    /\ fetch.kind = kind
    /\ fetch'.kind = "none"
    /\ ~fetch'.error
    /\ \A a \in DOMAIN attempts : ~Starts(a)

\* C13: every failure of a create, of a delete and of a list fetch (refetch or
\* load more) ends with the operation's speculative cache edit undone and with
\* an error notification shown for it.
C13_FailureRestoresAndNotifies ==
    [][/\ \A a \in DOMAIN attempts :
             RollsBack(a) =>
                 /\ toast' = Toast("error", "create")
                 /\ attempts[a].startCache.defined => cache' = attempts[a].startCache
       /\ DeleteFails =>
             /\ toast' = Toast("error", "delete")
             /\ cache' = cache
       /\ FetchFails =>
             /\ toast' = Toast("error", "fetch")
             /\ cache' = cache]_vars

\* C14: when a create attempt starts, the list fetch in flight (refetch or load
\* more) is cancelled and the snapshot is the cache of that moment; a fetch
\* whose answer is written to the cache is one during which no create started.
C14_FetchCancelledAtStart ==
    [][/\ \A a \in DOMAIN attempts :
             Starts(a) =>
                 /\ fetch'.kind = "none"
                 /\ attempts'[a].previousData = cache
       /\ \A kind \in {"next", "refetch"} :
             FetchWritten(kind) => fetch.started = Started]_vars

\* a create started while a load-more was in flight, and was committed with its
\* note in the cache and no page appended
C14_Witness ==
    \E a \in DOMAIN attempts :
        /\ attempts[a].cancelled = "next"
        /\ attempts[a].state = "committed"
        /\ attempts[a].response.id \in CacheIds(cache)
        /\ Len(cache.pages) = Len(attempts[a].startCache.pages)
        /\ fetch.kind = "none"

\* C15: the placeholder enters the cache, and the snapshot is taken, before the
\* attempt's first request; a request is made, and a row stored, only for an
\* attempt that is pending, that is after its onMutate.
C15_PlaceholderBeforeRequest ==
    [][/\ \A a \in DOMAIN attempts :
             /\ Starts(a) =>
                   /\ attempts'[a].calls = 0
                   /\ store' = store
                   /\ PlaceholderId(a) \in CacheIds(cache')
                   /\ attempts'[a].previousData = cache
             /\ attempts'[a].calls # attempts[a].calls =>
                   /\ attempts[a].state = "pending"
                   /\ attempts[a].optimisticNote.id = PlaceholderId(a)
       /\ store' # store =>
             \E a \in DOMAIN attempts :
                 /\ attempts[a].state = "pending"
                 /\ attempts'[a].calls = attempts[a].calls + 1]_vars

\* a pending attempt's request has stored a row while its placeholder is cached
C15_Witness ==
    \E a \in DOMAIN attempts :
        /\ attempts[a].state = "pending"
        /\ attempts[a].calls >= 1
        /\ PlaceholderId(a) \in CacheIds(cache)
        /\ \E r \in store : r.title = Trim(attempts[a].data.title) /\ r.id >= nextId - 1

\* C16: while no create attempt is pending, no id occurs twice in the
\* concatenation of the cache pages.
C16_NoDuplicateId ==
    NoPending /\ cache.defined =>
        LET all == CacheNotes(cache) IN
        \A i \in 1..Len(all) : \A j \in 1..Len(all) : i # j => all[i].id # all[j].id

StrictlyDescending(seq) ==
    \A i \in 1..Len(seq) : \A j \in 1..Len(seq) :
        i < j => seq[i].createdAt > seq[j].createdAt

\* C17: while no create attempt is pending, the notes of the cache pages
\* concatenated are in strictly descending createdAt order.
C17_CacheOrder ==
    NoPending /\ cache.defined => StrictlyDescending(CacheNotes(cache))

PagesWithin(c) == \A p \in 1..Len(c.pages) : Len(c.pages[p]) <= DEFAULT_LIMIT

\* C18: if no cache page holds more than 20 notes before onMutate's insert, none
\* does after it.
C18_PageSizeKept ==
    [][\A a \in DOMAIN attempts :
          Starts(a) /\ cache.defined /\ PagesWithin(cache) => PagesWithin(cache')]_vars

\* C19: onSuccess turns every entry with the placeholder id into the server's
\* note (id, title, content) with the entry's own createdAt, at the same place
\* of the same page, and leaves every other entry, the length of every page and
\* the pageParams as they were.
C19_CommitFrame ==
    [][\A a \in DOMAIN attempts :
          Commits(a) /\ cache.defined =>
              /\ cache'.pageParams = cache.pageParams
              /\ Len(cache'.pages) = Len(cache.pages)
              /\ \A p \in 1..Len(cache.pages) :
                    /\ Len(cache'.pages[p]) = Len(cache.pages[p])
                    /\ \A i \in 1..Len(cache.pages[p]) :
                          LET old == cache.pages[p][i]
                              new == cache'.pages[p][i]
                          IN  IF old.id = PlaceholderId(a)
                              THEN /\ new.id = attempts[a].response.id
                                   /\ new.title = attempts[a].response.title
                                   /\ new.content = attempts[a].response.content
                                   /\ new.createdAt = old.createdAt
                              ELSE new = old]_vars

\* an attempt was committed: its cache entry has the server's id and trimmed
\* title and the browser's createdAt, which is not the store's
C19_Witness ==
    \E a \in DOMAIN attempts :
        /\ attempts[a].state = "committed"
        /\ attempts[a].data.title.lead > 0
        /\ \E i \in 1..Len(CacheNotes(cache)) :
              LET n == CacheNotes(cache)[i] IN
              /\ n.id = attempts[a].response.id
              /\ n.title.lead = 0
              /\ n.createdAt = attempts[a].optimisticNote.createdAt
              /\ n.createdAt # attempts[a].response.createdAt
        /\ Len(CacheNotes(cache)) > 1

ServerIds(c) == {i \in CacheIds(c) : i > 0}

\* C20: an answered load-more appends one page after the pages of the cache
\* and leaves those as they were; and no step but the rollback of a failed
\* create takes a stored note's entry out of the cache, makes the cache hold
\* fewer notes or fewer pages.
C20_CacheGrowth ==
    [][/\ FetchWritten("next") =>
             /\ Len(cache'.pages) = Len(cache.pages) + 1
             /\ SubSeq(cache'.pages, 1, Len(cache.pages)) = cache.pages
       /\ (cache.defined /\ \A a \in DOMAIN attempts : ~RollsBack(a)) =>
             /\ ServerIds(cache) \subseteq ServerIds(cache')
             /\ Len(CacheNotes(cache')) >= Len(CacheNotes(cache))
             /\ Len(cache'.pages) >= Len(cache.pages)]_vars

\* C21: a create attempt makes at most 1 + RETRY.ATTEMPTS = 4 calls; it is
\* rolled back only after 4 calls that all failed and committed only after a
\* call that was answered; and, every call being answered or lost in the end,
\* a pending attempt eventually is committed or rolled back.
C21_BoundedRetry ==
    /\ [](\A a \in 1..MaxAttempts : attempts[a].calls <= 1 + RETRY_ATTEMPTS)
    /\ [][\A a \in 1..MaxAttempts :
             /\ RollsBack(a) =>
                   /\ attempts[a].calls = 1 + RETRY_ATTEMPTS
                   /\ attempts[a].net = "failed"
             /\ Commits(a) =>
                   /\ attempts[a].net = "ok"
                   /\ attempts[a].response # NoNote]_vars
    /\ \A a \in 1..MaxAttempts :
          (attempts[a].state = "pending") ~>
              (attempts[a].state \in {"committed", "rolled-back"})

\* an attempt was committed by its fourth call, after three calls that failed
C21_Witness ==
    \E a \in 1..MaxAttempts :
        /\ attempts[a].state = "committed"
        /\ attempts[a].calls = 1 + RETRY_ATTEMPTS

\* the rows this session's creates inserted
SessionRows == {r \in store : r.id <= SeedIdBase}

\* the cache entries of attempt a: its placeholder or a row it inserted
EntriesOf(a) ==
    {i \in 1..Len(CacheNotes(cache)) :
        \/ CacheNotes(cache)[i].id = PlaceholderId(a)
        \/ CacheNotes(cache)[i].id \in Ids(SessionRows)}

\* C22: every call of a create attempt that reaches the store inserts a row of
\* its own with the attempt's trimmed title and content, also after an earlier
\* call of the attempt did so and its answer was dropped; so one attempt leaves
\* up to as many rows as it made calls, while the cache holds at most one entry
\* for it.
C22_RetryInsertsAgain ==
    /\ Cardinality(SessionRows) <= attempts[1].calls
    /\ \A r \in SessionRows :
          /\ r.title = Trim(attempts[1].data.title)
          /\ r.content = Trim(attempts[1].data.content)
    /\ cache.defined => Cardinality(EntriesOf(1)) <= 1

\* one attempt, committed, has left two rows of equal title and content in the
\* store and one entry in the cache
C22_Witness ==
    /\ attempts[1].state = "committed"
    /\ Cardinality(SessionRows) = 2
    /\ \A r1 \in SessionRows : \A r2 \in SessionRows :
          r1.title = r2.title /\ r1.content = r2.content
    /\ Cardinality(EntriesOf(1)) = 1
    /\ attempts[1].response.id \in CacheIds(cache)

\* the ids attempt a's cache entry can have: its placeholder's, then the id the
\* store answered
EntryIdsOf(a) ==
    {PlaceholderId(a)} \cup
        (IF attempts[a].response = NoNote THEN {} ELSE {attempts[a].response.id})

\* C23: of two create attempts 1 then 2, while both are pending and when both
\* are committed, the cache holds an entry of each and the entry of attempt 2
\* comes before the entry of attempt 1, in whatever order the store inserted.
C23_PlaceholderOrder ==
    (/\ cache.defined
     /\ \/ attempts[1].state = "pending" /\ attempts[2].state = "pending"
        \/ attempts[1].state = "committed" /\ attempts[2].state = "committed") =>
        LET all == CacheNotes(cache) IN
        \E i \in 1..Len(all) : \E j \in 1..Len(all) :
            /\ i < j
            /\ all[i].id \in EntryIdsOf(2)
            /\ all[j].id \in EntryIdsOf(1)

DistinctCreatedAt(rows) ==
    \A r1 \in rows : \A r2 \in rows : r1 # r2 => r1.createdAt # r2.createdAt

\* C24: over an unchanging store of N notes of pairwise distinct createdAt, a
\* cursor walk of page size L makes exactly N \div L + 1 list calls; if N is a
\* positive multiple of L the last call, and no other, answers an empty page;
\* otherwise no call answers an empty page unless N = 0.
C24_WalkLength ==
    (walk.limit > 0 /\ DistinctCreatedAt(store)) =>
        LET N == Cardinality(store)
            L == walk.limit
            k == Len(walk.pages)
        IN
        /\ k <= (N \div L) + 1
        /\ walk.done =>
              /\ k = (N \div L) + 1
              /\ \A p \in 1..(k - 1) : walk.pages[p] # <<>>
              /\ N % L = 0 => walk.pages[k] = <<>>
              /\ N % L # 0 => walk.pages[k] # <<>>

\* a walk of page size 2 over two notes has ended with its second, empty page
C24_Witness ==
    /\ walk.done
    /\ walk.limit = 2
    /\ Cardinality(store) = 2
    /\ DistinctCreatedAt(store)
    /\ Len(walk.pages) = 2
    /\ Len(walk.pages[1]) = 2
    /\ walk.pages[2] = <<>>

LoadMoreStarts == fetch.kind # "next" /\ fetch'.kind = "next"

\* C25: load more is offered exactly when the last cache page holds exactly 20
\* notes; the cursor of a load-more request is the createdAt of the last note
\* of the last cache page, and it is not later than the createdAt of any note
\* the cache holds, as cached and as stored.
C25_NextCursorRule ==
    /\ [](cache.defined /\ Len(cache.pages) > 0 =>
             (HasNextPage(cache) <=> Len(LastPage(cache)) = DEFAULT_LIMIT))
    /\ [][LoadMoreStarts =>
             LET last == LastPage(cache)
                 cursor == GetNextPageParam(last, DEFAULT_LIMIT)
             IN
             /\ Len(last) = DEFAULT_LIMIT
             /\ cursor = last[Len(last)].createdAt
             /\ \A i \in 1..Len(CacheNotes(cache)) :
                   cursor <= CacheNotes(cache)[i].createdAt
             /\ \A r \in store :
                   r.id \in CacheIds(cache) => cursor <= r.createdAt]_vars

\* C26: the cache has as many pageParams as pages, the first being the
\* undefined cursor of the first page and every later one a cursor.
C26_CacheShape ==
    cache.defined =>
        /\ Len(cache.pageParams) = Len(cache.pages)
        /\ \A k \in 1..Len(cache.pageParams) :
              (k = 1) <=> (cache.pageParams[k] = NoCursor)

Occurrences(id) ==
    Cardinality({i \in 1..Len(CacheNotes(cache)) : CacheNotes(cache)[i].id = id})

\* C27: once no create attempt is pending, the cache holds the store's id of
\* every committed attempt exactly once.
C27_CommittedStayVisible ==
    NoPending /\ cache.defined =>
        \A a \in DOMAIN attempts :
            attempts[a].state = "committed" => Occurrences(attempts[a].response.id) = 1

\* C28: while no create attempt is pending, every id in the cache is an id the
\* store assigned: no placeholder is left.
C28_NoLeftoverPlaceholder ==
    NoPending /\ cache.defined =>
        \A id \in CacheIds(cache) :
            /\ id > 0
            /\ \A a \in DOMAIN attempts : id # PlaceholderId(a)

\* the store holds a note older than every note of the cache
StoreHasOlder ==
    \E r \in store :
        \A i \in 1..Len(CacheNotes(cache)) : r.createdAt < CacheNotes(cache)[i].createdAt

\* C29: on the index page, with no fetch in flight and no create pending,
\* load more is offered whenever the store holds a note older than every note
\* of the cache.
C29_OlderNotesOffered ==
    (/\ route = "index"
     /\ cache.defined
     /\ fetch.kind = "none"
     /\ NoPending
     /\ StoreHasOlder) => HasNextPage(cache)

\* C30: for every shape of cache value (none, no page, a partly filled page, a
\* full first page, several pages) the notes of all pages after onMutate's
\* insert are the placeholder followed by the notes of all pages before it, in
\* their order.
C30_ApplyPreservesNotes ==
    [][\A a \in DOMAIN attempts :
          Starts(a) =>
              /\ cache'.defined
              /\ CacheNotes(cache') =
                    <<attempts'[a].optimisticNote>> \o
                        (IF cache.defined THEN CacheNotes(cache) ELSE <<>>)]_vars

\* a create has started over two full pages: the last note of page 1 is now the
\* first of page 2
C30_Witness ==
    \E a \in DOMAIN attempts :
        /\ attempts[a].state = "pending"
        /\ attempts[a].startCache.defined
        /\ Len(attempts[a].startCache.pages) = 2
        /\ Len(attempts[a].startCache.pages[1]) = DEFAULT_LIMIT
        /\ Len(cache.pages) = 2
        /\ cache.pages[1][1] = attempts[a].optimisticNote
        /\ cache.pages[2][1] = attempts[a].startCache.pages[1][DEFAULT_LIMIT]

====
